---- MODULE Spec2Model ----
(***************************************************************************)
(* A model of PdfExtractor/PDFEXTRCT.py: the page-range parser             *)
(* parse_page_range, the thumbnail list widget with its selection, and     *)
(* the three export handlers of DocumentExtractorApp.                      *)
(*                                                                         *)
(* Text is modelled as a sequence of one-character strings, so that        *)
(* split, strip and int() are computed character by character.             *)
(***************************************************************************)
EXTENDS Integers, Sequences, FiniteSets, TLC

\* ------------------------------------------------------------------------
\* Bounds of the model
\* ------------------------------------------------------------------------
\* longest range text enumerated for the parser
MaxLen == 5
\* largest total_pages enumerated for the parser
MaxTotal == 2
\* largest page count of a loaded document
MaxPages == 3

VARIABLES
    \* --- parse_page_range called on its own -----------------------------
    range_text,     \* argument range_text
    total_pages,    \* argument total_pages
    parse_state,    \* "call" before the call, then "returned" or "raised"
    parse_pages,    \* the returned list (<<>> before the call and on a raise)
    \* --- DocumentExtractorApp --------------------------------------------
    pdf_doc,        \* self.pdf_doc: None or the opened document
    current_file,   \* self.current_file
    items,          \* page_list: row -> page_num stored in Qt.UserRole
    list_doc,       \* the document page_list.load_pages was last given
    selected,       \* selected rows of page_list, as selectedItems() lists them
    folder_path,    \* text of the folder_path line edit
    last_op         \* what the last handler did: dialogs, status, collaborator calls

vars == <<range_text, total_pages, parse_state, parse_pages, pdf_doc,
          current_file, items, list_doc, selected, folder_path, last_op>>

parse_vars == <<range_text, total_pages, parse_state, parse_pages>>

app_vars == <<pdf_doc, current_file, items, list_doc, selected, folder_path,
              last_op>>

\* ------------------------------------------------------------------------
\* Text helpers: str.strip, str.split, int
\* ------------------------------------------------------------------------
Whitespace == {" "}

Digits == <<"0", "1", "2", "3", "4", "5", "6", "7", "8", "9">>

IsDigit(c) == \E i \in 1..Len(Digits) : Digits[i] = c

DigitVal(c) == (CHOOSE i \in 1..Len(Digits) : Digits[i] = c) - 1

RECURSIVE LStrip(_)
LStrip(s) ==
    IF s = <<>> THEN s
    ELSE IF Head(s) \in Whitespace THEN LStrip(Tail(s))
    ELSE s

RECURSIVE RStrip(_)
RStrip(s) ==
    IF s = <<>> THEN s
    ELSE IF s[Len(s)] \in Whitespace THEN RStrip(SubSeq(s, 1, Len(s) - 1))
    ELSE s

\* str.strip()
Strip(s) == RStrip(LStrip(s))

\* 'sep' in s
Contains(s, sep) == \E i \in 1..Len(s) : s[i] = sep

\* str.split(sep): always at least one piece, empty pieces are kept
RECURSIVE Split(_, _)
Split(s, sep) ==
    IF ~Contains(s, sep) THEN <<s>>
    ELSE LET i == CHOOSE k \in 1..Len(s) :
                      /\ s[k] = sep
                      /\ \A j \in 1..(k - 1) : s[j] # sep
         IN  <<SubSeq(s, 1, i - 1)>> \o Split(SubSeq(s, i + 1, Len(s)), sep)

RECURSIVE DecimalValue(_)
DecimalValue(s) ==
    IF s = <<>> THEN 0
    ELSE 10 * DecimalValue(SubSeq(s, 1, Len(s) - 1)) + DigitVal(s[Len(s)])

\* int(s): surrounding whitespace is ignored; anything but a non-empty run of
\* digits is a ValueError (ok = FALSE).  Signs never reach int() here: the
\* caller splits on '-' first, and '+' is not in the texts enumerated.
IntParse(s) ==
    LET t == Strip(s)
    IN  IF t # <<>> /\ \A i \in 1..Len(t) : IsDigit(t[i])
        THEN [ok |-> TRUE, val |-> DecimalValue(t)]
        ELSE [ok |-> FALSE, val |-> 0]

\* ------------------------------------------------------------------------
\* parse_page_range
\* ------------------------------------------------------------------------
\* the pages a span start-end contributes (lines 127-129)
SpanPagesClamped(start, end, total) ==
    (IF start < 1 THEN 1 ELSE start)..(IF end > total THEN total ELSE end)

SpanPagesExclusive(start, end, total) ==
    IF start > end \/ start < 1 \/ end > total THEN {}
    ELSE start..(end - 1)

SpanPages(start, end, total) ==
    IF start > end \/ start < 1 \/ end > total THEN {}
    ELSE start..end

\* the pages a single number contributes (lines 135-136)
SinglePage(page, total) ==
    IF 1 <= page /\ page <= total THEN {page} ELSE {}

\* one iteration of the loop over parts (lines 119-138):
\* raised = TRUE when the iteration lets a ValueError escape
ParsePart(raw, total) ==
    LET part == Strip(raw)
    IN  IF part = <<>> THEN [raised |-> FALSE, pages |-> {}]
        ELSE IF Contains(part, "-")
        THEN LET pieces == Split(part, "-")
             IN  \* start, end = part.split('-') stands before the try:
                 \* unpacking anything but two pieces raises ValueError
                 IF Len(pieces) # 2 THEN [raised |-> TRUE, pages |-> {}]
                 ELSE LET start == IntParse(pieces[1])
                          end   == IntParse(pieces[2])
                      IN  IF start.ok /\ end.ok
                          THEN [raised |-> FALSE,
                                pages  |-> SpanPages(start.val, end.val, total)]
                          ELSE [raised |-> FALSE, pages |-> {}]
        ELSE LET page == IntParse(part)
             IN  IF page.ok
                 THEN [raised |-> FALSE, pages |-> SinglePage(page.val, total)]
                 ELSE [raised |-> FALSE, pages |-> {}]

\* the loop: the first escaping exception ends the call
RECURSIVE ParseParts(_, _, _)
ParseParts(parts, total, pages) ==
    IF parts = <<>> THEN [raised |-> FALSE, pages |-> pages]
    ELSE LET r == ParsePart(Head(parts), total)
         IN  IF r.raised THEN [raised |-> TRUE, pages |-> {}]
             ELSE ParseParts(Tail(parts), total, pages \cup r.pages)

\* sorted(pages)
RECURSIVE Sorted(_)
Sorted(S) ==
    IF S = {} THEN <<>>
    ELSE LET m == CHOOSE x \in S : \A y \in S : x <= y
         IN  <<m>> \o Sorted(S \ {m})

parse_page_range(text, total) ==
    LET r == ParseParts(Split(text, ","), total, {})
    IN  [raised |-> r.raised,
         pages  |-> IF r.raised THEN <<>> ELSE Sorted(r.pages)]

\* ------------------------------------------------------------------------
\* Inputs of the parser
\* ------------------------------------------------------------------------
Alphabet == {"0", "1", "2", "-", ",", " ", "a"}

Texts == UNION {[1..k -> Alphabet] : k \in 0..MaxLen}

Text_1_3to5_7 == <<"1", ",", "3", "-", "5", ",", "7">>
Text_5to2     == <<"5", "-", "2">>
Text_0_11     == <<"0", ",", "1", "1">>
Text_abc_2    == <<"a", "b", "c", ",", "2">>
Text_1to2to3  == <<"1", "-", "2", "-", "3">>

\* the examples of the documentation, with total_pages = 10
ExampleCalls ==
    {<<Text_1_3to5_7, 10>>, <<Text_5to2, 10>>, <<Text_0_11, 10>>,
     <<Text_abc_2, 10>>, <<Text_1to2to3, 10>>}

ParseCalls == (Texts \X (1..MaxTotal)) \cup ExampleCalls

\* ------------------------------------------------------------------------
\* Documents, the list widget and the disk
\* ------------------------------------------------------------------------
\* self.pdf_doc = None / self.current_file = None
NoDoc  == [path |-> "", n |-> 0]
NoFile == ""

\* the dropped .pdf file, or the .pdf the converter writes next to a .doc
Paths == {"a.pdf"}

\* what fitz.open(file_path) can return: the file's pages are 0..n-1
Documents == [path : Paths, n : 1..MaxPages]

\* len(pdf_doc)
DocLen(doc) == doc.n

\* pix.width and pix.height of page.get_pixmap() for the page at an offset:
\* pages of different sizes, the widest one not the first
PageWidth(page_num)  == 1 + ((page_num + 1) % 3)
PageHeight(page_num) == page_num + 1

\* os.path.join(os.getcwd(), "extracted_images")
DefaultDir == <<"extracted_images">>
OutDir     == <<"o", "u", "t">>

\* texts the folder_path line edit can hold
FolderTexts == {<<>>, <<" ">>, OutDir}

\* answers of QFileDialog.getSaveFileName: "" when the dialog is cancelled
SavePaths == {"", "out.pdf"}

\* status_bar.showMessage; NoStatus("") when the handler shows none
NoStatus(msg) == [msg |-> msg, n |-> 0]

\* file names written by the exports
MergedFile   == [kind |-> "merged_pages.png", n |-> 0]
PageFile(n)  == [kind |-> "page_N.png", n |-> n]
PdfFile      == [kind |-> "pdf", n |-> 0]

\* messages of show_error / show_success
ErrNoDocument     == "No document loaded!"
ErrNoSelection    == "No pages selected!"
ErrNothingMerged  == "No valid pages to extract"
ErrNothingSaved   == "Failed to extract any pages"
ErrExtraction     == "Error during extraction"
ErrPdfSave        == "PDF save failed"
ErrLoad           == "Failed to load PDF"
ErrConversion     == "Conversion failed. Please install LibreOffice."
ErrNoRange        == "Please enter a page range"
ErrNoValidPages   == "No valid pages in the specified range"
ErrInvalidRange   == "Invalid page range"
OkMerged          == "Saved combined image"
OkSeparate        == "Extracted pages"
OkPdf             == "PDF saved"
OkConverted       == "Converted to PDF"

ErrorDialogs ==
    {ErrNoDocument, ErrNoSelection, ErrNothingMerged, ErrNothingSaved,
     ErrExtraction, ErrPdfSave, ErrLoad, ErrConversion, ErrNoRange,
     ErrNoValidPages, ErrInvalidRange}

\* the record of a handler that has done nothing yet
Op(name) ==
    [op         |-> name,
     dialogs    |-> <<>>,           \* message boxes shown, in order
     status     |-> NoStatus(""),   \* message put in the status bar
     order      |-> <<>>,   \* rows as selectedItems() returned them
     rasterized |-> <<>>,   \* page offsets given to get_pixmap, in order
     images     |-> <<>>,   \* pages rasterized successfully: [page, w, h]
     canvas     |-> <<>>,   \* <<width, height>> of Image.new
     pastes     |-> <<>>,   \* combined.paste calls: [page, x, y, h]
     written    |-> {},     \* files written
     count      |-> 0,      \* success_count
     pdf_pages  |-> <<>>,   \* page offsets inserted into the new PDF
     folder     |-> <<>>,   \* output_folder of an image export
     existed    |-> FALSE,  \* os.path.exists(output_folder)
     made_dir   |-> <<>>,   \* directory created by os.makedirs
     path       |-> "",     \* path answered by the save dialog
     failed     |-> {},     \* page offsets whose per-page try block raised
     pages      |-> <<>>,   \* select_pages: the parsed page list
     cleared    |-> <<>>]   \* load_pages: rows selected when self.clear() ran

Range(s) == {s[i] : i \in 1..Len(s)}

\* ------------------------------------------------------------------------
\* ThumbnailListWidget.load_pages and DocumentExtractorApp.load_pdf
\* ------------------------------------------------------------------------
\* self.clear() of load_pages: removes every item, and with them the selection
SelectionKept(old_selected) == old_selected

SelectionAfterClear(old_selected) == <<>>

\* the items load_pages adds: one per page whose thumbnail rendered, appended
\* in the order of range(len(pdf_doc)); each holds its page_num as user data
load_pages(rendered) == Sorted(rendered)

\* load_pdf, called by the handler `opname` that shows `after` when it returns
load_pdf(file_path, open_ok, n, rendered, opname, after) ==
    IF open_ok
    THEN /\ pdf_doc' = [path |-> file_path, n |-> n]
         /\ current_file' = file_path
         /\ items' = load_pages(rendered)
         /\ list_doc' = [path |-> file_path, n |-> n]
         /\ selected' = SelectionAfterClear(selected)
         /\ last_op' = [Op(opname) EXCEPT !.dialogs = after,
                                          !.status = NoStatus("Loaded"),
                                          !.cleared = selected]
    ELSE /\ pdf_doc' = NoDoc
         /\ current_file' = NoFile
         /\ last_op' = [Op(opname) EXCEPT !.dialogs = <<ErrLoad>> \o after]
         /\ UNCHANGED <<items, list_doc, selected>>

\* ------------------------------------------------------------------------
\* The selection of the list widget
\* ------------------------------------------------------------------------
\* item.setSelected(True) adds the row at the end of what selectedItems()
\* lists; a click on a selected item of a MultiSelection list removes it
Toggle(rows, row) ==
    IF row \in Range(rows)
    THEN LET other(r) == r # row IN SelectSeq(rows, other)
    ELSE Append(rows, row)

\* the rows select_pages marks for a parsed page list (lines 422-425)
RowsOf(pages, count) ==
    LET ok(q) == 0 <= q - 1 /\ q - 1 < count
        kept  == SelectSeq(pages, ok)
    IN  [i \in 1..Len(kept) |-> kept[i] - 1]

\* lines 421-425: clearSelection drops old_selected, then the rows of the pages
SelectRows(old_selected, pages, count) == RowsOf(pages, count)

\* ------------------------------------------------------------------------
\* The exports
\* ------------------------------------------------------------------------
\* the checks every export handler starts with (lines 439-446, 492-499,
\* 533-540): the error shown, or "" when both checks pass
ExportPreconditionNoSelectionCheck(doc, rows) ==
    IF doc = NoDoc THEN ErrNoDocument ELSE ""

ExportPrecondition(doc, rows) ==
    IF doc = NoDoc THEN ErrNoDocument
    ELSE IF rows = <<>> THEN ErrNoSelection
    ELSE ""

\* lines 448-450: output_folder
OutputFolder(text) == IF Strip(text) = <<>> THEN DefaultDir ELSE Strip(text)

\* the body of a per-page try block: fails for the rows in `fails`, and for
\* an offset the document does not have (self.pdf_doc[page_num])
PageOk(doc, page_num, fails) == page_num < DocLen(doc) /\ page_num \notin fails

\* the list `images` after the loop of lines 459-466
Rasterized(doc, order, fails) ==
    LET ok(page_num) == PageOk(doc, page_num, fails)
        kept == SelectSeq(order, ok)
    IN  [i \in 1..Len(kept) |->
            [page |-> kept[i], w |-> PageWidth(kept[i]), h |-> PageHeight(kept[i])]]

\* max(img.width for img in images)
MaxWidth(images) ==
    CHOOSE w \in {images[i].w : i \in 1..Len(images)} :
        \A i \in 1..Len(images) : images[i].w <= w

\* sum(img.height for img in images[:k])
RECURSIVE SumHeights(_, _)
SumHeights(images, k) ==
    IF k = 0 THEN 0 ELSE SumHeights(images, k - 1) + images[k].h

\* lines 478-481: the paste calls, y_offset accumulating
PasteCallsNoAdvance(images) ==
    [i \in 1..Len(images) |->
        [page |-> images[i].page, x |-> 0, y |-> 0, h |-> images[i].h]]

PasteCalls(images) ==
    [i \in 1..Len(images) |->
        [page |-> images[i].page, x |-> 0, y |-> SumHeights(images, i - 1),
         h |-> images[i].h]]

\* extract_pages from line 456 on, the output folder existing
MergedResult(doc, order, fails, save_ok) ==
    LET images == Rasterized(doc, order, fails)
        base   == [Op("extract_pages") EXCEPT
                      !.order = order,
                      !.rasterized = order,
                      !.images = images,
                      !.failed = {p \in Range(order) : ~PageOk(doc, p, fails)}]
    IN  IF images = <<>>
        THEN [base EXCEPT !.dialogs = <<ErrNothingMerged>>]
        ELSE LET composed ==
                     [base EXCEPT !.canvas = <<MaxWidth(images),
                                               SumHeights(images, Len(images))>>,
                                  !.pastes = PasteCalls(images)]
             IN  IF save_ok
                 THEN [composed EXCEPT !.written = {MergedFile},
                                       !.dialogs = <<OkMerged>>,
                                       !.status = NoStatus("Extraction complete!")]
                 ELSE [composed EXCEPT !.dialogs = <<ErrExtraction>>]

\* success_count after the loop of lines 512-521
SuccessCountAttempted(order, saved) == Len(order)

SuccessCount(order, saved) == Cardinality({i \in 1..Len(order) : order[i] \in saved})

\* extract_separate_pages from line 509 on: a page is saved when get_pixmap,
\* Image.frombytes and img.save all succeed
SeparateResult(doc, order, fails) ==
    LET saved == {p \in Range(order) : PageOk(doc, p, fails)}
        count == SuccessCount(order, saved)
        base  == [Op("extract_separate_pages") EXCEPT
                     !.order = order,
                     !.rasterized = order,
                     !.failed = Range(order) \ saved,
                     !.written = {PageFile(p + 1) : p \in saved},
                     !.count = count]
    IN  IF count > 0
        THEN [base EXCEPT !.dialogs = <<OkSeparate>>,
                          !.status = [msg |-> "Extracted", n |-> count]]
        ELSE [base EXCEPT !.dialogs = <<ErrNothingSaved>>]

\* extract_as_pdf from line 547 on: `copied` insert_pdf calls succeed; when
\* all of them do, save_ok tells whether new_pdf.save does
PdfCopy(order, copied, save_ok) ==
    LET base == [Op("extract_as_pdf") EXCEPT !.order = order,
                                             !.pdf_pages = SubSeq(order, 1, copied)]
    IN  IF copied = Len(order) /\ save_ok
        THEN [base EXCEPT !.written = {PdfFile}, !.dialogs = <<OkPdf>>,
                          !.status = NoStatus("PDF saved successfully")]
        ELSE [base EXCEPT !.dialogs = <<ErrPdfSave>>]

\* extract_as_pdf from line 542 on; new_pdf.save("") raises
PdfExportNoPathCheck(path, order, copied, save_ok) ==
    [PdfCopy(order, copied, save_ok /\ path # "") EXCEPT !.path = path]

PdfExport(path, order, copied, save_ok) ==
    IF path = "" THEN Op("extract_as_pdf")
    ELSE [PdfCopy(order, copied, save_ok) EXCEPT !.path = path]

\* lines 448-454 / 501-507 around an image export: the output folder is
\* resolved, and created when os.path.exists says it is missing
InFolder(result, folder, existed) ==
    [result EXCEPT !.folder = folder,
                   !.existed = existed,
                   !.made_dir = IF existed THEN <<>> ELSE folder]

\* os.makedirs raises: the handler ends in its outer except
MakeDirsFails(opname, folder) ==
    [Op(opname) EXCEPT !.folder = folder, !.dialogs = <<ErrExtraction>>]

\* ------------------------------------------------------------------------
\* Initial state
\* ------------------------------------------------------------------------
AppStart ==
    /\ pdf_doc = NoDoc
    /\ current_file = NoFile
    /\ items = <<>>
    /\ list_doc = NoDoc
    /\ selected = <<>>
    /\ folder_path = <<>>
    /\ last_op = Op("init")

ParseIdle ==
    /\ range_text = <<>>
    /\ total_pages = 1
    /\ parse_state = "idle"
    /\ parse_pages = <<>>

\* ------------------------------------------------------------------------
\* The parser called on its own
\* ------------------------------------------------------------------------
ParseInit ==
    /\ \E c \in ParseCalls :
          /\ range_text = c[1]
          /\ total_pages = c[2]
    /\ parse_state = "call"
    /\ parse_pages = <<>>
    /\ AppStart

ParseCall ==
    /\ parse_state = "call"
    /\ LET r == parse_page_range(range_text, total_pages)
       IN  /\ parse_state' = IF r.raised THEN "raised" ELSE "returned"
           /\ parse_pages' = r.pages
    /\ UNCHANGED <<range_text, total_pages>>
    /\ UNCHANGED app_vars

ParseNext == ParseCall

SpecParse == ParseInit /\ [][ParseNext]_vars

\* ------------------------------------------------------------------------
\* DocumentExtractorApp: one action per handler
\* ------------------------------------------------------------------------
\* range texts typed into range_input
SelectTexts ==
    {<<" ">>, <<"1">>, <<"3">>, <<"9">>, <<"a">>, <<"3", ",", "1">>,
     <<"1", "-", "2">>, <<"2", "-", "4">>, <<" ", "2", ",">>, Text_1to2to3}

Init ==
    /\ AppStart
    /\ ParseIdle

\* load_pdf: fitz.open raises
LoadFails(opname, after) ==
    load_pdf("a.pdf", FALSE, 1, {}, opname, after)

\* load_pdf: the document opens with n pages, of which `rendered` get a thumbnail
LoadSucceeds(opname, after) ==
    \E file_path \in Paths, n \in 1..MaxPages :
        \E rendered \in SUBSET (0..(n - 1)) :
            load_pdf(file_path, TRUE, n, rendered, opname, after)

\* dropEvent with a .pdf file
LoadPdf ==
    /\ \/ LoadFails("load_pdf", <<>>)
       \/ LoadSucceeds("load_pdf", <<>>)
    /\ UNCHANGED folder_path
    /\ UNCHANGED parse_vars

\* dropEvent with a .doc/.docx file: convert_doc_to_pdf
ConvertDocToPdf ==
    /\ \/ LoadFails("convert_doc_to_pdf", <<OkConverted>>)
       \/ LoadSucceeds("convert_doc_to_pdf", <<OkConverted>>)
       \/ \* the converter left no .pdf
          /\ last_op' = [Op("convert_doc_to_pdf") EXCEPT
                            !.dialogs = <<ErrConversion>>]
          /\ UNCHANGED <<pdf_doc, current_file, items, list_doc, selected>>
    /\ UNCHANGED folder_path
    /\ UNCHANGED parse_vars

\* a click on an item of the list
ToggleItem ==
    /\ \E row \in 0..(Len(items) - 1) : selected' = Toggle(selected, row)
    /\ last_op' = Op("click")
    /\ UNCHANGED <<pdf_doc, current_file, items, list_doc, folder_path>>
    /\ UNCHANGED parse_vars

\* select_pages with `text` in range_input
SelectPages ==
    /\ \E text \in SelectTexts :
          LET stripped == Strip(text)
              parsed   == parse_page_range(stripped, DocLen(pdf_doc))
              shows(d) == /\ last_op' = [Op("select_pages") EXCEPT !.dialogs = <<d>>]
                          /\ UNCHANGED selected
          IN  IF pdf_doc = NoDoc THEN shows(ErrNoDocument)
              ELSE IF stripped = <<>> THEN shows(ErrNoRange)
              ELSE IF parsed.raised THEN shows(ErrInvalidRange)
              ELSE IF parsed.pages = <<>> THEN shows(ErrNoValidPages)
              ELSE /\ selected' = SelectRows(selected, parsed.pages, Len(items))
                   /\ last_op' = [Op("select_pages") EXCEPT
                                     !.pages = parsed.pages,
                                     !.status = [msg |-> "Selected",
                                                 n   |-> Len(parsed.pages)]]
    /\ UNCHANGED <<pdf_doc, current_file, items, list_doc, folder_path>>
    /\ UNCHANGED parse_vars

\* browse_folder, or typing into the folder_path line edit
SetFolderPath ==
    /\ \E text \in FolderTexts : folder_path' = text
    /\ last_op' = Op("browse_folder")
    /\ UNCHANGED <<pdf_doc, current_file, items, list_doc, selected>>
    /\ UNCHANGED parse_vars

\* extract_pages: the selected pages as one combined image
ExtractPages ==
    /\ LET pre    == ExportPrecondition(pdf_doc, selected)
           folder == OutputFolder(folder_path)
       IN  IF pre # ""
           THEN last_op' = [Op("extract_pages") EXCEPT !.dialogs = <<pre>>]
           ELSE \/ last_op' = MakeDirsFails("extract_pages", folder)
                \/ \E fails \in SUBSET Range(selected), save_ok \in BOOLEAN,
                      existed \in BOOLEAN :
                      last_op' = InFolder(MergedResult(pdf_doc, selected, fails,
                                                       save_ok),
                                          folder, existed)
    /\ UNCHANGED <<pdf_doc, current_file, items, list_doc, selected, folder_path>>
    /\ UNCHANGED parse_vars

\* extract_separate_pages: one image file per selected page
ExtractSeparatePages ==
    /\ LET pre    == ExportPrecondition(pdf_doc, selected)
           folder == OutputFolder(folder_path)
       IN  IF pre # ""
           THEN last_op' = [Op("extract_separate_pages") EXCEPT
                               !.dialogs = <<pre>>]
           ELSE \/ last_op' = MakeDirsFails("extract_separate_pages", folder)
                \/ \E fails \in SUBSET Range(selected), existed \in BOOLEAN :
                      last_op' = InFolder(SeparateResult(pdf_doc, selected, fails),
                                          folder, existed)
    /\ UNCHANGED <<pdf_doc, current_file, items, list_doc, selected, folder_path>>
    /\ UNCHANGED parse_vars

\* extract_as_pdf: the selected pages as a new PDF
ExtractAsPdf ==
    /\ LET pre == ExportPrecondition(pdf_doc, selected)
       IN  IF pre # ""
           THEN last_op' = [Op("extract_as_pdf") EXCEPT !.dialogs = <<pre>>]
           ELSE \E path \in SavePaths, copied \in 0..Len(selected),
                   save_ok \in BOOLEAN :
                   last_op' = PdfExport(path, selected, copied, save_ok)
    /\ UNCHANGED <<pdf_doc, current_file, items, list_doc, selected, folder_path>>
    /\ UNCHANGED parse_vars

Next ==
    \/ LoadPdf
    \/ ConvertDocToPdf
    \/ ToggleItem
    \/ SelectPages
    \/ SetFolderPath
    \/ ExtractPages
    \/ ExtractSeparatePages
    \/ ExtractAsPdf

Spec == Init /\ [][Next]_vars

\* ========================================================================
\* Properties of parse_page_range (checked under SpecParse)
\* ========================================================================
ParseDone == parse_state \in {"returned", "raised"}

\* C1: parse_page_range never raises: for every text the call returns a list,
\* malformed tokens (non-numeric, an empty side of the hyphen, more than one
\* hyphen) being dropped.
C1_NeverRaises == parse_state # "raised"

\* a non-empty run of digits
IsNumber(s) == s # <<>> /\ \A i \in 1..Len(s) : IsDigit(s[i])

\* the tokens of a text: the maximal comma-free stretches text[a..b]
IsToken(text, a, b) ==
    /\ a \in 1..(Len(text) + 1)
    /\ b \in (a - 1)..Len(text)
    /\ a = 1 \/ text[a - 1] = ","
    /\ b = Len(text) \/ text[b + 1] = ","
    /\ \A i \in a..b : text[i] # ","

Tokens(text) ==
    {SubSeq(text, a, b) : <<a, b>> \in
        {ab \in (1..(Len(text) + 1)) \X (0..Len(text)) : IsToken(text, ab[1], ab[2])}}

WellFormedToken(token) ==
    LET t == Strip(token)
    IN  \/ IsNumber(t)
        \/ \E i \in 1..Len(t) :
               /\ t[i] = "-"
               /\ IsNumber(Strip(SubSeq(t, 1, i - 1)))
               /\ IsNumber(Strip(SubSeq(t, i + 1, Len(t))))

WellFormedText(text) == \A token \in Tokens(text) : WellFormedToken(token)

\* page p is contributed by a well-formed token: the token is the integer p
\* with 1 <= p <= total, or a span A-B with 1 <= A <= p <= B <= total
Contributes(token, p, total) ==
    LET t == Strip(token)
    IN  \/ IsNumber(t) /\ DecimalValue(t) = p /\ 1 <= p /\ p <= total
        \/ \E i \in 1..Len(t) :
               LET left  == Strip(SubSeq(t, 1, i - 1))
                   right == Strip(SubSeq(t, i + 1, Len(t)))
               IN  /\ t[i] = "-"
                   /\ IsNumber(left) /\ IsNumber(right)
                   /\ 1 <= DecimalValue(left) /\ DecimalValue(left) <= p
                   /\ p <= DecimalValue(right) /\ DecimalValue(right) <= total

ExpectedPages(text, total) ==
    {p \in 1..total : \E token \in Tokens(text) : Contributes(token, p, total)}

IsAscending(s) == \A i \in 1..(Len(s) - 1) : s[i] < s[i + 1]

\* C2: for a text of well-formed tokens the call returns the strictly
\* ascending, duplicate-free list of exactly the pages its tokens contribute;
\* a reversed or out-of-bounds span contributes nothing, and every page
\* returned lies in 1..total_pages.
C2_WellFormedUnion ==
    (ParseDone /\ WellFormedText(range_text)) =>
        /\ parse_state = "returned"
        /\ IsAscending(parse_pages)
        /\ Range(parse_pages) = ExpectedPages(range_text, total_pages)
        /\ Range(parse_pages) \subseteq 1..total_pages

\* a well-formed text with a span that is dropped whole next to a token that
\* contributes
C2_Witness ==
    /\ parse_state = "returned"
    /\ WellFormedText(range_text)
    /\ parse_pages # <<>>
    /\ \E token \in Tokens(range_text) :
          /\ Contains(token, "-")
          /\ \A p \in 1..total_pages : ~Contributes(token, p, total_pages)

IsDocExample == range_text = Text_1_3to5_7 /\ total_pages = 10

\* C3 as stated: parse_range("1,3-5,7", 10) returns [1,3,4,5,6,7].
C3_Original ==
    (IsDocExample /\ ParseDone) =>
        parse_state = "returned" /\ parse_pages = <<1, 3, 4, 5, 6, 7>>

\* C3 amended: parse_range("1,3-5,7", 10) returns [1,3,4,5,7]; page 6 is in
\* no token of the text.
C3_Amended ==
    (IsDocExample /\ ParseDone) =>
        parse_state = "returned" /\ parse_pages = <<1, 3, 4, 5, 7>>

C3_Witness == IsDocExample /\ parse_state = "returned"

\* ========================================================================
\* Properties of the application (checked under Spec)
\* ========================================================================
ImageOps  == {"extract_pages", "extract_separate_pages"}
ExportOps == ImageOps \cup {"extract_as_pdf"}

PastedPages == [i \in 1..Len(last_op.pastes) |-> last_op.pastes[i].page]

\* C4: every export processes the selected pages in ascending page order,
\* whatever order selectedItems() lists them in.
C4_AscendingOrder ==
    last_op.op \in ExportOps =>
        /\ IsAscending(last_op.rasterized)
        /\ IsAscending(PastedPages)
        /\ IsAscending(last_op.pdf_pages)

\* the selection belongs to the loaded document
SelectionOfLoadedDoc ==
    pdf_doc # NoDoc =>
        /\ list_doc = pdf_doc
        /\ \A i \in 1..Len(selected) :
              selected[i] < DocLen(pdf_doc) /\ selected[i] < Len(items)

\* an export reads only offsets the loaded document has
ExportReadsLoadedDoc ==
    last_op.op \in ExportOps =>
        \A p \in Range(last_op.rasterized) \cup Range(last_op.pdf_pages) :
            p < DocLen(pdf_doc)

C6_GuardedExports ==
    [][(last_op'.op \in ExportOps /\ (pdf_doc = NoDoc \/ selected = <<>>)) =>
          /\ last_op'.dialogs =
                <<IF pdf_doc = NoDoc THEN ErrNoDocument ELSE ErrNoSelection>>
          /\ last_op'.rasterized = <<>>
          /\ last_op'.images = <<>>
          /\ last_op'.pdf_pages = <<>>
          /\ last_op'.made_dir = <<>>
          /\ last_op'.written = {}
          /\ UNCHANGED <<pdf_doc, current_file, items, list_doc, selected>>]_vars

C6_Witness ==
    /\ last_op.op = "extract_as_pdf"
    /\ pdf_doc # NoDoc
    /\ selected = <<>>
    /\ last_op.dialogs = <<ErrNoSelection>>

\* extract_as_pdf got past its two checks and the save dialog answered ""
PdfExportCancelled ==
    /\ last_op.op = "extract_as_pdf"
    /\ pdf_doc # NoDoc
    /\ selected # <<>>
    /\ last_op.path = ""

\* an image export got past its two checks with an empty folder field
ImageExportToDefault ==
    /\ last_op.op \in ImageOps
    /\ pdf_doc # NoDoc
    /\ selected # <<>>
    /\ Strip(folder_path) = <<>>

\* C7 as stated: a new-PDF export given no file path shows an error.
C7_Original ==
    PdfExportCancelled =>
        \E i \in 1..Len(last_op.dialogs) : last_op.dialogs[i] \in ErrorDialogs

\* C7 amended: a new-PDF export given no file path ends silently, showing no
\* message and writing nothing; an image export with an empty folder field
\* uses the default directory, creating it when missing, and shows an error
\* when it cannot be created.
C7_Amended ==
    /\ PdfExportCancelled =>
          /\ last_op.dialogs = <<>>
          /\ last_op.status = NoStatus("")
          /\ last_op.pdf_pages = <<>>
          /\ last_op.written = {}
    /\ ImageExportToDefault =>
          /\ last_op.folder = DefaultDir
          /\ \/ last_op.existed
             \/ last_op.made_dir = DefaultDir
             \/ /\ last_op.dialogs = <<ErrExtraction>>
                /\ last_op.rasterized = <<>>
                /\ last_op.written = {}

C7_Witness == PdfExportCancelled /\ last_op.dialogs = <<>>

\* the selected pages whose per-page try block did not raise
Extracted == Range(selected) \ last_op.failed

\* C8: extract_separate_pages, once its folder is there, tries every selected
\* page, writes page_<offset+1>.png for exactly those that did not fail,
\* counts exactly those, reports success when the count is >= 1 and
\* "Failed to extract any pages" exactly when it is 0.
C8_SeparateImages ==
    (last_op.op = "extract_separate_pages" /\ last_op.rasterized # <<>>) =>
        /\ Range(last_op.rasterized) = Range(selected)
        /\ last_op.written = {PageFile(p + 1) : p \in Extracted}
        /\ last_op.count = Cardinality(Extracted)
        /\ last_op.count >= 1 =>
              /\ last_op.dialogs = <<OkSeparate>>
              /\ last_op.status = [msg |-> "Extracted", n |-> Cardinality(Extracted)]
        /\ last_op.count = 0 <=> last_op.dialogs = <<ErrNothingSaved>>

\* three pages selected, one of them fails, two are reported
C8_Witness ==
    /\ last_op.op = "extract_separate_pages"
    /\ Len(selected) = 3
    /\ Cardinality(last_op.failed) = 1
    /\ last_op.count = 2
    /\ last_op.dialogs = <<OkSeparate>>

\* C9: extract_pages, once its folder is there: the pages pasted are the
\* selected pages that rasterized, each at x = 0 and at the y where the page
\* pasted before it ends, the first at 0; the canvas is as wide as the widest
\* and as high as all of them together; when none rasterized the handler shows
\* "No valid pages to extract" and writes no file.
C9_MergedImage ==
    (last_op.op = "extract_pages" /\ last_op.rasterized # <<>>) =>
        LET pastes == last_op.pastes
            k      == Len(pastes)
        IN  IF Extracted = {}
            THEN /\ last_op.dialogs = <<ErrNothingMerged>>
                 /\ last_op.written = {}
                 /\ pastes = <<>>
            ELSE /\ k = Cardinality(Extracted)
                 /\ Range(PastedPages) = Extracted
                 /\ \A i \in 1..k :
                       /\ pastes[i].x = 0
                       /\ pastes[i].h = PageHeight(pastes[i].page)
                       /\ pastes[i].y = IF i = 1 THEN 0
                                        ELSE pastes[i - 1].y + pastes[i - 1].h
                       /\ PageWidth(pastes[i].page) <= last_op.canvas[1]
                 /\ \E i \in 1..k : PageWidth(pastes[i].page) = last_op.canvas[1]
                 /\ last_op.canvas[2] = pastes[k].y + pastes[k].h
                 /\ last_op.written \subseteq {MergedFile}

\* three pages selected, one fails, the two others merged, the widest not first
C9_Witness ==
    /\ last_op.op = "extract_pages"
    /\ Len(selected) = 3
    /\ Cardinality(last_op.failed) = 1
    /\ last_op.written = {MergedFile}
    /\ PageWidth(last_op.pastes[1].page) < last_op.canvas[1]

\* C10: after select_pages with a text that parses to a non-empty page list,
\* the selected offsets are exactly the parsed pages minus one, and the number
\* reported in the status bar is the number of rows selected.
C10_SelectReplaces ==
    (last_op.op = "select_pages" /\ last_op.status.msg = "Selected") =>
        /\ Range(selected) = {p - 1 : p \in Range(last_op.pages)}
        /\ last_op.status.n = Len(selected)

\* C11: in every reachable state each item of the page list sits at the row
\* of the page offset it was rendered from (the item of page_num p at row p),
\* also when the thumbnail of some page failed in load_pages; so the row an
\* export reads is the page the user selected.
C11_RowIsPageOffset ==
    \A row \in 0..(Len(items) - 1) : items[row + 1] = row

====
